---- MODULE Spec2Model ----
(***************************************************************************)
(* Model of static/tracker.js: the AttributionIQ browser tracker.          *)
(*                                                                         *)
(* Several page loads (tabs, or successive visits) of one storage origin   *)
(* run the DOMContentLoaded handler and, later, the installed              *)
(* window.attributionIQ.trackConversion.  Script code of one page load     *)
(* runs to completion, but localStorage is shared by all page loads of the *)
(* origin with no lock, so another page load may act between the getItem   *)
(* and the setItem of getCustomerId: that is the one place where a handler *)
(* is split in two steps.                                                  *)
(*                                                                         *)
(* Strings the code inspects (referrer, identifiers, channel labels) are   *)
(* sequences of one-character strings.                                     *)
(***************************************************************************)
EXTENDS Integers, Sequences, FiniteSets, TLC

--------------------------------------------------------------------------
(* Bounds of the model *)

\* page loads (tabs or successive visits) sharing the storage origin
NumLoads == 2
\* events from outside the tracker, over all page loads: trackConversion calls
\* by page code, transport failures, external clearings of the storage
MaxEvents == 2
\* pieces a referrer string is concatenated from (channel specification)
MaxPieces == 2
\* trackConversion calls in the input and channel specifications
MaxInputCalls == 1

Loads == 1..NumLoads

--------------------------------------------------------------------------
(* JavaScript values *)

Undefined == [t |-> "undefined"]
Null == [t |-> "null"]
NaN == [t |-> "nan"]
Infinity == [t |-> "infinity"]
EmptyObject == [t |-> "object"]
Num(n) == [t |-> "number", n |-> n]
Str(s) == [t |-> "string", s |-> s]
Bool(b) == [t |-> "boolean", b |-> b]

\* ToBoolean, as applied by `!x` and `x || y`
Truthy(v) ==
    CASE v.t = "undefined" -> FALSE
      [] v.t = "null" -> FALSE
      [] v.t = "nan" -> FALSE
      [] v.t = "number" -> v.n # 0
      [] v.t = "string" -> v.s # <<>>
      [] v.t = "boolean" -> v.b
      [] OTHER -> TRUE

\* a || b
Or(a, b) == IF Truthy(a) THEN a ELSE b

\* JSON.stringify of an object: a property whose value is undefined is left
\* out, NaN and Infinity are written as null
JSONValue(v) == IF v.t \in {"nan", "infinity"} THEN Null ELSE v

JSONstringify(data) ==
    [k \in {f \in DOMAIN data : data[f] # Undefined} |-> JSONValue(data[k])]

--------------------------------------------------------------------------
(* Strings *)

S_direct == <<"d", "i", "r", "e", "c", "t">>
S_other == <<"o", "t", "h", "e", "r">>
S_google == <<"g", "o", "o", "g", "l", "e">>
S_bing == <<"b", "i", "n", "g">>
S_yahoo == <<"y", "a", "h", "o", "o">>
S_duckduckgo == <<"d", "u", "c", "k", "d", "u", "c", "k", "g", "o">>
S_facebook == <<"f", "a", "c", "e", "b", "o", "o", "k">>
S_instagram == <<"i", "n", "s", "t", "a", "g", "r", "a", "m">>
S_twitter == <<"t", "w", "i", "t", "t", "e", "r">>
S_linkedin == <<"l", "i", "n", "k", "e", "d", "i", "n">>
S_tiktok == <<"t", "i", "k", "t", "o", "k">>

\* String.prototype.includes
includes(ref, key) ==
    \E i \in 1..(Len(ref) - Len(key) + 1) : SubSeq(ref, i, i + Len(key) - 1) = key

\* mutant: the entries in alphabetical order of their keys
domains_Sorted ==
    << [key |-> S_bing, value |-> S_bing],
       [key |-> S_duckduckgo, value |-> S_duckduckgo],
       [key |-> S_facebook, value |-> S_facebook],
       [key |-> S_google, value |-> S_google],
       [key |-> S_instagram, value |-> S_instagram],
       [key |-> S_linkedin, value |-> S_linkedin],
       [key |-> S_tiktok, value |-> S_tiktok],
       [key |-> S_twitter, value |-> S_twitter],
       [key |-> S_yahoo, value |-> S_yahoo] >>

\* the entries of `domains`, in insertion order (Object.entries)
domains ==
    << [key |-> S_google, value |-> S_google],
       [key |-> S_bing, value |-> S_bing],
       [key |-> S_yahoo, value |-> S_yahoo],
       [key |-> S_duckduckgo, value |-> S_duckduckgo],
       [key |-> S_facebook, value |-> S_facebook],
       [key |-> S_instagram, value |-> S_instagram],
       [key |-> S_twitter, value |-> S_twitter],
       [key |-> S_linkedin, value |-> S_linkedin],
       [key |-> S_tiktok, value |-> S_tiktok] >>

\* the for-of loop of getReferralChannel, from entry i on
RECURSIVE ChannelLoop(_, _)
ChannelLoop(ref, i) ==
    IF i > Len(domains) THEN S_other
    ELSE IF includes(ref, domains[i].key) THEN domains[i].value
    ELSE ChannelLoop(ref, i + 1)

getReferralChannel(ref) ==
    IF ~Truthy(Str(ref)) THEN S_direct ELSE ChannelLoop(ref, 1)

--------------------------------------------------------------------------
(* Inputs *)

\* values of window.attributionIQ the embedding page may have set
Cred_T == Str(<<"T">>)
Cred_K == Str(<<"K">>)
ConfigObject(tenant, key) == [t |-> "object", tenant_id |-> tenant, api_key |-> key]
ValidConfig == ConfigObject(Cred_T, Cred_K)
Configs == { Undefined, ConfigObject(Cred_T, Str(<<>>)), ValidConfig }
AllConfigs ==
    {Undefined} \cup
    { ConfigObject(a, b) : a \in {Undefined, Null, Str(<<>>), Cred_T},
                           b \in {Undefined, Null, Str(<<>>), Cred_K} }

\* values of document.referrer
Referrers == { S_facebook \o S_google }
Pieces ==
    { S_google, S_bing, S_yahoo, S_duckduckgo, S_facebook, S_instagram, S_twitter,
      S_linkedin, S_tiktok, <<"g", "o", "o">>, <<"g", "l", "e">>, <<"/">> }
RECURSIVE Concats(_)
Concats(n) ==
    IF n = 0 THEN {<<>>}
    ELSE Concats(n - 1) \cup {r \o p : r \in Concats(n - 1), p \in Pieces}
AllReferrers == Concats(MaxPieces)

\* arguments page code passes to trackConversion
ConvArgs == { Undefined, Num(42) }
AllConvArgs ==
    { Undefined, Null, NaN, Infinity, EmptyObject, Num(0), Num(42), Num(-1),
      Str(<<>>), Str(<<"a", "b", "c">>), Str(<<"4", "2">>), Bool(TRUE), Bool(FALSE) }

\* Math.random().toString(36).substr(2, 10): empty when Math.random() is 0
RandParts == { <<>>, <<"a">> }
\* Date.now().toString(36): never empty
TimeParts == { <<"k">> }

--------------------------------------------------------------------------
(* State *)

VARIABLES
    storage,    \* localStorage.getItem('attributioniq_cid'): Null or a string
    pc,         \* each page load's position
    config,     \* each page load's window.attributionIQ, as read at line 4
    referrer,   \* each page load's document.referrer
    arg,        \* the argument of each page load's latest trackConversion call
    installed,  \* whether window.attributionIQ.trackConversion is installed
    requests,   \* the fetch calls issued, in order
    rejected,   \* the requests whose promise was rejected
    console,    \* the console.error lines, in order
    uncaught,   \* the rejections no handler caught (reported to the page)
    reads,      \* getItem calls of each page load
    writes,     \* setItem calls of each page load
    calls,      \* trackConversion calls of each page load
    clears      \* external clearings of the storage

vars ==
    << storage, pc, config, referrer, arg, installed, requests, rejected, console,
       uncaught, reads, writes, calls, clears >>

Init ==
    /\ storage = Null
    /\ pc = [l \in Loads |-> "loading"]
    /\ config = [l \in Loads |-> Undefined]
    /\ referrer = [l \in Loads |-> <<>>]
    /\ arg = [l \in Loads |-> Undefined]
    /\ installed = [l \in Loads |-> FALSE]
    /\ requests = <<>>
    /\ rejected = {}
    /\ console = <<>>
    /\ uncaught = {}
    /\ reads = [l \in Loads |-> 0]
    /\ writes = [l \in Loads |-> 0]
    /\ calls = [l \in Loads |-> 0]
    /\ clears = 0

--------------------------------------------------------------------------
(* The handler's pieces *)

\* o.name: undefined when the object has no such property
Prop(o, name) == IF name \in DOMAIN o THEN o[name] ELSE Undefined

\* const config = window.attributionIQ || {}
ConfigOf(w) == Or(w, EmptyObject)
tenantId(w) == Prop(ConfigOf(w), "tenant_id")
apiKey(w) == Prop(ConfigOf(w), "api_key")

\* mutant: only the tenant is checked
ConfigMissing_TenantOnly(w) == ~Truthy(tenantId(w))

\* if (!tenantId || !apiKey)
ConfigMissing(w) == ~Truthy(tenantId(w)) \/ ~Truthy(apiKey(w))

\* mutant: the identifier is read once and kept by the page load
getItem_Cached(l) == reads' = [reads EXCEPT ![l] = IF @ = 0 THEN 1 ELSE @]

\* localStorage.getItem('attributioniq_cid') by page load l; its result is
\* the value of storage
getItem(l) == reads' = [reads EXCEPT ![l] = @ + 1]

\* mutant: the identifier is stored under another key
setItem_OtherKey(l, cid) ==
    /\ storage' = storage
    /\ writes' = [writes EXCEPT ![l] = @ + 1]

\* localStorage.setItem('attributioniq_cid', cid) by page load l
setItem(l, cid) ==
    /\ storage' = cid
    /\ writes' = [writes EXCEPT ![l] = @ + 1]

\* mutant: a new identifier is generated whatever was read
NeedsNewCid_Always(cid) == TRUE

\* if (!cid)
NeedsNewCid(cid) == ~Truthy(cid)

\* mutant: the timestamp is left out
NewCid_RandOnly(rand, now) == Str(rand)

\* Math.random().toString(36).substr(2, 10) + Date.now().toString(36)
NewCid(rand, now) == Str(rand \o now)

\* mutant: the page view carries an is_conversion field
PageViewData_Flagged(cid, ref) ==
    [customer_id |-> cid, channel |-> Str(getReferralChannel(ref)), value |-> Num(1),
     is_conversion |-> Bool(FALSE)]

\* the object literal passed to trackEvent by the handler
PageViewData(cid, ref) ==
    [customer_id |-> cid, channel |-> Str(getReferralChannel(ref)), value |-> Num(1)]

\* value || 0
ConversionValue(value) == Or(value, Num(0))

\* the object literal passed to trackEvent by trackConversion
ConversionData(cid, ref, value) ==
    [customer_id |-> cid, channel |-> Str(getReferralChannel(ref)), value |-> Num(1),
     is_conversion |-> Bool(TRUE), conversion_value |-> ConversionValue(value)]

\* mutant: an event equal to one already sent is not sent again
trackEvent_Dedup(l, key, data) ==
    LET r == [load |-> l, method |-> "POST", authorization |-> key,
              body |-> JSONstringify(data)]
    IN requests' = IF \E i \in 1..Len(requests) : requests[i] = r
                   THEN requests ELSE Append(requests, r)

\* trackEvent: one fetch, a POST with the bearer token and the serialized event
trackEvent(l, key, data) ==
    requests' = Append(requests,
        [load |-> l, method |-> "POST", authorization |-> key,
         body |-> JSONstringify(data)])

\* mutant: the failed request is logged and sent again
CatchHandler_Retry(i) ==
    /\ console' = Append(console, [msg |-> "tracking", req |-> i, at |-> Len(requests)])
    /\ requests' = Append(requests, requests[i])
    /\ UNCHANGED uncaught

\* .catch(error => console.error(...)): the rejection is logged and goes no
\* further (at: how many requests had been issued when the line was logged)
CatchHandler(i) ==
    /\ console' = Append(console, [msg |-> "tracking", req |-> i, at |-> Len(requests)])
    /\ UNCHANGED << uncaught, requests >>

TotalCalls == LET RECURSIVE Sum(_)
                  Sum(l) == IF l = 0 THEN 0 ELSE calls[l] + Sum(l - 1)
              IN Sum(NumLoads)

\* the events from outside the tracker so far
Events == TotalCalls + Cardinality(rejected) + clears

--------------------------------------------------------------------------
(* Actions *)

\* The DOMContentLoaded handler, up to the getItem of getCustomerId and, when
\* the identifier is stored, to its end.  Page loads are numbered in the order
\* in which their DOMContentLoaded fires.
DOMContentLoadedWith(l, cfgs, refs) ==
    /\ pc[l] = "loading"
    /\ IF l = 1 THEN TRUE ELSE pc[l - 1] # "loading"
    /\ \E w \in cfgs, ref \in refs :
        /\ config' = [config EXCEPT ![l] = w]
        /\ IF ConfigMissing(w)
           THEN /\ console' = Append(console, [msg |-> "config", load |-> l])
                /\ pc' = [pc EXCEPT ![l] = "halted"]
                /\ UNCHANGED << referrer, requests, installed, reads >>
           ELSE /\ referrer' = [referrer EXCEPT ![l] = ref]
                /\ getItem(l)
                /\ UNCHANGED console
                /\ IF NeedsNewCid(storage)
                   THEN /\ pc' = [pc EXCEPT ![l] = "init_miss"]
                        /\ UNCHANGED << requests, installed >>
                   ELSE /\ trackEvent(l, apiKey(w), PageViewData(storage, ref))
                        /\ installed' = [installed EXCEPT ![l] = TRUE]
                        /\ pc' = [pc EXCEPT ![l] = "ready"]
    /\ UNCHANGED << storage, arg, rejected, uncaught, writes, calls, clears >>

\* The rest of the handler after a getItem that found nothing: generate,
\* setItem, send the page view, install trackConversion.
InitSetItem(l) ==
    /\ pc[l] = "init_miss"
    /\ \E rand \in RandParts, now \in TimeParts :
        /\ setItem(l, NewCid(rand, now))
        /\ trackEvent(l, apiKey(config[l]), PageViewData(NewCid(rand, now), referrer[l]))
    /\ installed' = [installed EXCEPT ![l] = TRUE]
    /\ pc' = [pc EXCEPT ![l] = "ready"]
    /\ UNCHANGED << config, referrer, arg, rejected, console, uncaught, reads, calls,
                    clears >>

\* Page code calls window.attributionIQ.trackConversion(value)
trackConversionWith(l, args, cap) ==
    /\ installed[l]
    /\ pc[l] = "ready"
    /\ cap > 0
    /\ \E value \in args :
        /\ calls' = [calls EXCEPT ![l] = @ + 1]
        /\ arg' = [arg EXCEPT ![l] = value]
        /\ getItem(l)
        /\ IF NeedsNewCid(storage)
           THEN /\ pc' = [pc EXCEPT ![l] = "conv_miss"]
                /\ UNCHANGED requests
           ELSE /\ trackEvent(l, apiKey(config[l]),
                              ConversionData(storage, referrer[l], value))
                /\ UNCHANGED pc
    /\ UNCHANGED << storage, config, referrer, installed, rejected, console, uncaught,
                    writes, clears >>

\* The rest of trackConversion after a getItem that found nothing
ConvSetItem(l) ==
    /\ pc[l] = "conv_miss"
    /\ \E rand \in RandParts, now \in TimeParts :
        /\ setItem(l, NewCid(rand, now))
        /\ trackEvent(l, apiKey(config[l]),
                      ConversionData(NewCid(rand, now), referrer[l], arg[l]))
    /\ pc' = [pc EXCEPT ![l] = "ready"]
    /\ UNCHANGED << config, referrer, arg, installed, rejected, console, uncaught,
                    reads, calls, clears >>

\* The transport of request i fails: fetch's promise is rejected, and the
\* catch handler runs once the page load that sent it is not running script
FetchRejects(i) ==
    /\ i \in 1..Len(requests)
    /\ i \notin rejected
    /\ pc[requests[i].load] = "ready"
    /\ Events < MaxEvents
    /\ rejected' = rejected \cup {i}
    /\ CatchHandler(i)
    /\ UNCHANGED << storage, pc, config, referrer, arg, installed, reads, writes, calls,
                    clears >>

\* The storage is cleared from outside the tracker
ClearStorage ==
    /\ storage # Null
    /\ Events < MaxEvents
    /\ storage' = Null
    /\ clears' = clears + 1
    /\ UNCHANGED << pc, config, referrer, arg, installed, requests, rejected, console,
                    uncaught, reads, writes, calls >>

DOMContentLoaded(l) == DOMContentLoadedWith(l, Configs, Referrers)
trackConversion(l) == trackConversionWith(l, ConvArgs, MaxEvents - Events)

Next ==
    \/ \E l \in Loads : DOMContentLoaded(l)
    \/ \E l \in Loads : InitSetItem(l)
    \/ \E l \in Loads : trackConversion(l)
    \/ \E l \in Loads : ConvSetItem(l)
    \/ \E i \in 1..Len(requests) : FetchRejects(i)
    \/ ClearStorage

Spec == Init /\ [][Next]_vars

\* One page load on its own, with the configuration and the trackConversion
\* arguments drawn from the larger input sets
InputDOMContentLoaded == DOMContentLoadedWith(1, AllConfigs, Concats(1))
InputTrackConversion == trackConversionWith(1, AllConvArgs, MaxInputCalls - calls[1])

InputNext ==
    \/ InputDOMContentLoaded
    \/ InitSetItem(1)
    \/ InputTrackConversion

InputSpec == Init /\ [][InputNext]_vars

\* One page load on its own, with the referrer drawn from the larger input set
ChannelDOMContentLoaded == DOMContentLoadedWith(1, {ValidConfig}, AllReferrers)
ChannelTrackConversion == trackConversionWith(1, ConvArgs, MaxInputCalls - calls[1])

ChannelNext ==
    \/ ChannelDOMContentLoaded
    \/ InitSetItem(1)
    \/ ChannelTrackConversion

ChannelSpec == Init /\ [][ChannelNext]_vars

--------------------------------------------------------------------------
(* Properties *)

Miss == {"init_miss", "conv_miss"}
Last(l) == CHOOSE i \in 1..Len(requests) :
               /\ requests[i].load = l
               /\ \A j \in 1..Len(requests) : requests[j].load = l => j <= i
ReqsOf(l) == {i \in 1..Len(requests) : requests[i].load = l}
IsConversion(i) == "is_conversion" \in DOMAIN requests[i].body
PageViewsOf(l) == {i \in ReqsOf(l) : ~IsConversion(i)}
ConversionsOf(l) == {i \in ReqsOf(l) : IsConversion(i)}
\* the tracked actions of page load l whose event has been built and sent
Completed(l) ==
    IF pc[l] \in {"loading", "halted", "init_miss"} THEN 0
    ELSE 1 + calls[l] - (IF pc[l] = "conv_miss" THEN 1 ELSE 0)
\* a credential that is missing or empty
NoCredential(v) == v.t # "string" \/ v.s = <<>>
Misconfigured(w) ==
    \/ w.t # "object"
    \/ NoCredential(w.tenant_id)
    \/ NoCredential(w.api_key)

\* C1: a page load whose tenant_id or api_key is missing or empty at
\* DOMContentLoaded issues no request and never has trackConversion installed;
\* it only logs one configuration error.
C1_NoActivityWithoutConfig ==
    \A l \in Loads :
        (pc[l] # "loading" /\ Misconfigured(config[l])) =>
            /\ pc[l] = "halted"
            /\ ReqsOf(l) = {}
            /\ ~installed[l]
            /\ calls[l] = 0 /\ reads[l] = 0 /\ writes[l] = 0
            /\ Cardinality({n \in 1..Len(console) :
                   console[n] = [msg |-> "config", load |-> l]}) = 1

\* a page load stopped by its configuration while another one is tracking
C1_Witness ==
    \E l, m \in Loads :
        /\ pc[l] = "halted"
        /\ config[l] = ConfigObject(Cred_T, Str(<<>>))
        /\ pc[m] = "ready"
        /\ Cardinality(ReqsOf(m)) = 2

\* C2: a page load with both credentials non-empty issues exactly one request
\* of its own accord, whose body is customer_id, channel and value = 1 with no
\* is_conversion field; every other request of it answers a trackConversion
\* call.
C2_OnePageView ==
    \A l \in Loads :
        (pc[l] # "loading" /\ ~Misconfigured(config[l])) =>
            /\ pc[l] = "init_miss" => ReqsOf(l) = {}
            /\ pc[l] # "init_miss" =>
                  /\ Cardinality(PageViewsOf(l)) = 1
                  /\ \A i \in PageViewsOf(l) :
                        /\ DOMAIN requests[i].body = {"customer_id", "channel", "value"}
                        /\ requests[i].body.value = Num(1)
                        /\ \A j \in ReqsOf(l) : i <= j
                  /\ Cardinality(ReqsOf(l)) - 1 <= calls[l]
                  /\ installed[l]

\* a page load that has sent its page view and nothing else
C2_Witness ==
    \E l \in Loads :
        /\ config[l] = ValidConfig
        /\ pc[l] = "ready"
        /\ calls[l] = 0
        /\ Cardinality(ReqsOf(l)) = 1
        /\ ~IsConversion(Last(l))

\* C8: trackConversion is not deduplicated: a page load whose k calls have
\* returned has issued exactly k conversion requests, 1 + k requests in all.
C8_OneRequestPerCall ==
    \A l \in Loads :
        installed[l] =>
            /\ Cardinality(ConversionsOf(l)) = calls[l] - (IF pc[l] = "conv_miss" THEN 1 ELSE 0)
            /\ pc[l] = "ready" => Cardinality(ReqsOf(l)) = 1 + calls[l]

\* two calls with the same argument have issued two equal requests
C8_Witness ==
    \E l \in Loads : \E i, j \in ConversionsOf(l) :
        /\ i < j
        /\ requests[i] = requests[j]
        /\ calls[l] = 2

\* C6: a rejected request is logged once by the catch handler and nothing
\* reaches page code; it is not sent again (each tracked action has issued
\* exactly one request), and trackConversion stays installed and keeps issuing
\* one request per call.
C6_FailureIsDropped ==
    /\ uncaught = {}
    /\ \A i \in rejected :
          Cardinality({n \in 1..Len(console) :
              console[n].msg = "tracking" /\ console[n].req = i}) = 1
    /\ \A n \in 1..Len(console) :
          console[n].msg = "tracking" => console[n].req \in rejected
    /\ \A l \in Loads :
          /\ Cardinality(ReqsOf(l)) = Completed(l)
          /\ ReqsOf(l) # {} => installed[l] /\ pc[l] \in {"ready", "conv_miss"}

\* a request failed and, after that, the same page load's trackConversion
\* issued its request
C6_Witness ==
    \E n \in 1..Len(console) :
        /\ console[n].msg = "tracking"
        /\ \E j \in 1..Len(requests) :
              /\ j > console[n].at
              /\ requests[j].load = requests[console[n].req].load
              /\ IsConversion(j)

Cid(i) == requests[i].body.customer_id
TotalWrites == LET RECURSIVE Sum(_)
                   Sum(l) == IF l = 0 THEN 0 ELSE writes[l] + Sum(l - 1)
               IN Sum(NumLoads)
\* page load l sends a request in this step
Sends(l) ==
    /\ Len(requests') = Len(requests) + 1
    /\ requests'[Len(requests')].load = l
NewCidSent == requests'[Len(requests')].body.customer_id

\* C3 as stated: unless the storage has been cleared externally, all
\* transmitted events carry one customer_id, also when several tabs initialize
\* concurrently on a first visit.
C3_SameIdAlways ==
    clears = 0 => \A i, j \in 1..Len(requests) : Cid(i) = Cid(j)

\* C3, amended: all transmitted events carry one customer_id as long as the
\* storage has not been cleared externally and the identifier has been
\* generated (written) once only, that is, no two page loads both read the
\* key before either stored it; that customer_id is the stored one.
C3_SameIdWhileGeneratedOnce ==
    (clears = 0 /\ TotalWrites <= 1) =>
        \A i, j \in 1..Len(requests) :
            /\ Cid(i) = Cid(j)
            /\ Cid(i) = storage

\* two page loads, the second after the first had stored the identifier, and
\* a conversion: three events with one identifier
C3_Witness ==
    /\ clears = 0
    /\ TotalWrites = 1
    /\ Len(requests) >= 3
    /\ \E i, j \in 1..Len(requests) :
          /\ requests[i].load # requests[j].load
          /\ Cid(i) = Cid(j)
    /\ \E i \in 1..Len(requests) : IsConversion(i)

\* C7: getCustomerId is get-or-create.  A call that finds the key returns the
\* stored value and leaves the storage alone; a call that does not find it
\* returns nothing before it has written a new non-empty string, which it then
\* returns; and a call made while the storage still holds what the page
\* load's previous call returned returns that value again.
C7_GetOrCreate ==
    [][\A l \in Loads :
        /\ (reads'[l] = reads[l] + 1 /\ storage # Null) =>
              /\ storage' = storage
              /\ writes'[l] = writes[l]
              /\ Sends(l)
              /\ NewCidSent = storage
        /\ (reads'[l] = reads[l] + 1 /\ storage = Null) =>
              /\ storage' = Null
              /\ requests' = requests
              /\ pc'[l] \in Miss
        /\ writes'[l] = writes[l] + 1 =>
              /\ pc[l] \in Miss
              /\ storage'.t = "string"
              /\ storage'.s # <<>>
              /\ Sends(l)
              /\ NewCidSent = storage'
        /\ (Sends(l) /\ ReqsOf(l) # {} /\ pc[l] \notin Miss) =>
              (Cid(Last(l)) = storage => NewCidSent = Cid(Last(l)))
        /\ Sends(l) => (reads'[l] = reads[l] + 1 \/ writes'[l] = writes[l] + 1)
      ]_vars

\* a first call wrote the identifier and a second one returned it
C7_Witness ==
    \E l \in Loads :
        /\ writes[l] = 1
        /\ reads[l] = 2
        /\ Cardinality(ReqsOf(l)) = 2
        /\ \A i \in ReqsOf(l) : Cid(i) = storage

\* C9 as stated: within a page load the key is read at most once and written
\* at most once, however often trackConversion is called.
C9_ReadOncePerLoad ==
    \A l \in Loads : reads[l] <= 1 /\ writes[l] <= 1

\* C9, amended: the key is read once for every tracked event, 1 + k times in
\* a page load with k trackConversion calls, and written only after a read
\* that found nothing: at most once in a page load unless the storage is
\* cleared externally.
C9_ReadOncePerEvent ==
    \A l \in Loads :
        /\ reads[l] = Cardinality(ReqsOf(l)) + (IF pc[l] \in Miss THEN 1 ELSE 0)
        /\ pc[l] \in {"ready", "conv_miss"} => reads[l] = 1 + calls[l]
        /\ writes[l] <= reads[l] - (IF pc[l] \in Miss THEN 1 ELSE 0)
        /\ clears = 0 => writes[l] <= 1

\* a page load that read the key three times and wrote it once
C9_Witness ==
    \E l \in Loads : reads[l] = 3 /\ writes[l] = 1 /\ calls[l] = 2

\* C10 as stated: once the key holds a value, no step of the tracker changes or
\* removes it; only an external clearing does.
C10_NeverChanged ==
    [][storage # Null => (storage' = storage \/ clears' = clears + 1)]_vars

\* C10, amended: the tracker never removes the stored identifier, and a call of
\* getCustomerId that has read it never changes it; apart from external
\* clearing it is replaced only by a page load that had read the key as
\* absent before the value was stored and then completes its own write.
C10_ChangedOnlyByPendingWrite ==
    [][/\ (storage # Null /\ storage' # storage) =>
             \/ storage' = Null /\ clears' = clears + 1
             \/ \E l \in Loads :
                   /\ pc[l] \in Miss
                   /\ writes'[l] = writes[l] + 1
                   /\ storage' # Null
       /\ \A l \in Loads :
             (pc'[l] \in Miss /\ pc[l] \notin Miss) => (storage = Null /\ storage' = Null)
       /\ \A l \in Loads :
             writes'[l] # writes[l] => pc[l] \in Miss
      ]_vars

\* two page loads both wrote an identifier, the second replacing the first
C10_Witness ==
    /\ clears = 0
    /\ writes[1] = 1 /\ writes[2] = 1
    /\ \E i \in 1..Len(requests) : Cid(i) # storage

\* the nine tokens, in the order the specification lists them
Tokens ==
    << S_google, S_bing, S_yahoo, S_duckduckgo, S_facebook, S_instagram, S_twitter,
       S_linkedin, S_tiktok >>
\* tok occurs in ref: ref = u \o tok \o v for some u and v
Occurs(tok, ref) ==
    \E a \in 0..Len(ref) : \E b \in a..Len(ref) :
        /\ b - a = Len(tok)
        /\ \A n \in 1..Len(tok) : ref[a + n] = tok[n]
ExpectedChannel(ref) ==
    IF ref = <<>> THEN S_direct
    ELSE IF \A n \in 1..Len(Tokens) : ~Occurs(Tokens[n], ref) THEN S_other
    ELSE Tokens[CHOOSE n \in 1..Len(Tokens) :
                    /\ Occurs(Tokens[n], ref)
                    /\ \A m \in 1..(n - 1) : ~Occurs(Tokens[m], ref)]

\* C4 as stated: a request issued by trackConversion(value) has
\* is_conversion = true and conversion_value = value when value is a number,
\* and conversion_value = 0 for every other argument, whatever its type.
\* (Infinity, a number that JSON can only write as null, is left aside.)
C4_NonNumericBecomesZero ==
    \A l \in Loads :
        (pc[l] = "ready" /\ calls[l] > 0 /\ arg[l] # Infinity) =>
            /\ IsConversion(Last(l))
            /\ requests[Last(l)].body.is_conversion = Bool(TRUE)
            /\ requests[Last(l)].body.conversion_value =
                  (IF arg[l].t = "number" THEN arg[l] ELSE Num(0))

\* C5: the channel of every event is "direct" for an empty referrer, otherwise
\* the first of the nine tokens, in their fixed order, that occurs anywhere in
\* the referrer, otherwise "other".
C5_ChannelByFirstToken ==
    \A i \in 1..Len(requests) :
        requests[i].body.channel = Str(ExpectedChannel(referrer[requests[i].load]))

\* a conversion whose referrer has facebook before google: its channel is
\* google, the token listed first
C5_Witness ==
    \E i \in 1..Len(requests) :
        /\ referrer[requests[i].load] = S_facebook \o S_google
        /\ requests[i].body.channel = Str(S_google)
        /\ IsConversion(i)

====
